---- MODULE Spec2Model ----
(***************************************************************************)
(* Invoice renaming: the field cleaners, the canonical file name, the      *)
(* collision resolver and the batch loop of src/src/bot.py.                *)
(*                                                                         *)
(* A Python str is a sequence of one-character strings, so that every      *)
(* regular expression, slice and concatenation of the source is computed   *)
(* on characters.                                                          *)
(***************************************************************************)
EXTENDS Integers, Sequences, FiniteSets, TLC

\* ------------------------------------------------------------------------
\* Bounds of the model
\* ------------------------------------------------------------------------

\* longest string enumerated exhaustively over a field's alphabet
MaxLen == 3

\* how many paddings below a length limit (50, 200) the long inputs cover
PadSpan == 3

\* longest list of input paths handed to the first batch
MaxBatch == 3

VARIABLES
    raw,            \* the record answer_invoice_questions returned
    cleaned_data,   \* the record clean_all works on
    recleaned,      \* a cleaned field, cleaned once more
    new_filename,   \* the name create_new_name returned
    clock,          \* the date create_new_name read from the clock
    stage,          \* how far the record went through the pipeline
    fs,             \* the file system: directory -> (file name -> content)
    output_directory,  \* the output directory of the batches, or None
    locked,         \* whether the callers let one batch at a time write
    file_paths,     \* per batch: the list process_multiple_invoices got
    idx,            \* per batch: how many paths its loop went through
    results,        \* per batch: the list its loop appends to
    pc,             \* per batch: where the batch is
    local,          \* per batch: the locals of process_single_invoice
                    \* and rename_file
    lost            \* the files that a copy or a rename wrote over

cleanVars == <<raw, cleaned_data, recleaned, new_filename, clock, stage>>

batchVars == <<fs, output_directory, locked, file_paths, idx, results, pc, local, lost>>

vars == <<raw, cleaned_data, recleaned, new_filename, clock, stage,
          fs, output_directory, locked, file_paths, idx, results, pc, local, lost>>

None == "None"

\* the batches that may run at the same time
Workers == {"w1", "w2"}

\* the two directories
InDir == "in"

OutDir == "out"

NoLocals ==
    [ file_path |-> None, cleaned |-> None, new_filename |-> None,
      new_path |-> None, counter |-> 0, base_name |-> None, ext |-> None ]

\* a directory without files
EmptyDir == [n \in {} |-> None]

\* no batch is running
BatchIdle ==
    /\ fs = [d \in {InDir, OutDir} |-> EmptyDir]
    /\ output_directory = None
    /\ locked = FALSE
    /\ file_paths = [w \in Workers |-> <<>>]
    /\ idx = [w \in Workers |-> 0]
    /\ results = [w \in Workers |-> <<>>]
    /\ pc = [w \in Workers |-> "done"]
    /\ local = [w \in Workers |-> NoLocals]
    /\ lost = {}

\* no record is in the pipeline
PipelineIdle ==
    /\ raw = None
    /\ cleaned_data = None
    /\ recleaned = None
    /\ new_filename = None
    /\ clock = None
    /\ stage = "idle"

\* ------------------------------------------------------------------------
\* Characters and strings
\* ------------------------------------------------------------------------

UNKNOWN_ATTRIBUTE_TEXT == <<"U", "N", "K", "N", "O", "W", "N">>

\* the class [<>:"/\\|?*] of the cleaners
IllegalChars == {"<", ">", ":", "\"", "/", "\\", "|", "?", "*"}

\* \s
Whitespace == {" ", "\t", "\n"}

\* \d
Digit == {"0", "1", "2", "3", "4", "5", "6", "7", "8", "9"}

\* a-zA-Z
Letter ==
    {"a", "b", "c", "d", "e", "f", "g", "h", "i", "j", "k", "l", "m",
     "n", "o", "p", "q", "r", "s", "t", "u", "v", "w", "x", "y", "z",
     "A", "B", "C", "D", "E", "F", "G", "H", "I", "J", "K", "L", "M",
     "N", "O", "P", "Q", "R", "S", "T", "U", "V", "W", "X", "Y", "Z"}

\* [a-zA-Z0-9\-_]
NumberChars == Letter \cup Digit \cup {"-", "_"}

\* [0-9\.\,\$€£¥]
TotalChars == Digit \cup {".", ",", "$", "€", "£", "¥"}

\* [\s\-\.]
SeparatorChars == Whitespace \cup {"-", "."}

\* re.sub(r'[C]', '', s)
RemoveChars(s, C) == SelectSeq(s, LAMBDA c : c \notin C)

\* re.sub(r'[^C]', '', s)
KeepChars(s, C) == SelectSeq(s, LAMBDA c : c \in C)

\* re.sub(r'[C]+', r, s): every maximal run of characters of C becomes r
RECURSIVE CollapseFrom(_, _, _, _)
CollapseFrom(s, i, C, r) ==
    IF i > Len(s) THEN <<>>
    ELSE IF s[i] \in C
         THEN (IF i > 1 /\ s[i - 1] \in C THEN <<>> ELSE r)
              \o CollapseFrom(s, i + 1, C, r)
         ELSE <<s[i]>> \o CollapseFrom(s, i + 1, C, r)

CollapseRuns(s, C, r) == CollapseFrom(s, 1, C, r)

\* str.strip(chars)
StripChars(s, C) ==
    LET keep == {i \in 1..Len(s) : s[i] \notin C}
    IN  IF keep = {} THEN <<>>
        ELSE LET lo == CHOOSE i \in keep : \A j \in keep : i <= j
                 hi == CHOOSE i \in keep : \A j \in keep : i >= j
             IN  SubSeq(s, lo, hi)

StartsWith(s, p) == Len(s) >= Len(p) /\ SubSeq(s, 1, Len(p)) = p

EndsWith(s, p) ==
    Len(s) >= Len(p) /\ SubSeq(s, Len(s) - Len(p) + 1, Len(s)) = p

\* re.sub(r'^www\.', '', s)
StripWww(s) ==
    IF StartsWith(s, <<"w", "w", "w", ".">>) THEN SubSeq(s, 5, Len(s)) ELSE s

\* re.sub(r'\.com$', '', s): $ is the end of the string, or the place before
\* a newline that ends the string
StripDotCom(s) ==
    IF EndsWith(s, <<".", "c", "o", "m">>)
    THEN SubSeq(s, 1, Len(s) - 4)
    ELSE IF EndsWith(s, <<".", "c", "o", "m", "\n">>)
         THEN SubSeq(s, 1, Len(s) - 5) \o <<"\n">>
         ELSE s

\* value of one decimal digit
DigitValue(c) ==
    CASE c = "0" -> 0 [] c = "1" -> 1 [] c = "2" -> 2 [] c = "3" -> 3
      [] c = "4" -> 4 [] c = "5" -> 5 [] c = "6" -> 6 [] c = "7" -> 7
      [] c = "8" -> 8 [] c = "9" -> 9

DigitChar(d) ==
    CASE d = 0 -> "0" [] d = 1 -> "1" [] d = 2 -> "2" [] d = 3 -> "3"
      [] d = 4 -> "4" [] d = 5 -> "5" [] d = 6 -> "6" [] d = 7 -> "7"
      [] d = 8 -> "8" [] d = 9 -> "9"

\* int(s) of a string of decimal digits
RECURSIVE ParseInt(_)
ParseInt(s) ==
    IF s = <<>> THEN 0
    ELSE 10 * ParseInt(SubSeq(s, 1, Len(s) - 1)) + DigitValue(s[Len(s)])

\* str(n) of a natural number, as an f-string formats it
RECURSIVE IntToStr(_)
IntToStr(n) ==
    IF n < 10 THEN <<DigitChar(n)>>
    ELSE IntToStr(n \div 10) \o <<DigitChar(n % 10)>>

\* str.zfill(width) of a string of digits
RECURSIVE zfill(_, _)
zfill(s, width) == IF Len(s) >= width THEN s ELSE zfill(<<"0">> \o s, width)

\* separator.join(components)
RECURSIVE Join(_, _)
Join(components, sep) ==
    IF components = <<>> THEN <<>>
    ELSE IF Len(components) = 1 THEN components[1]
         ELSE components[1] \o sep \o Join(Tail(components), sep)

\* ------------------------------------------------------------------------
\* The cleaners
\* ------------------------------------------------------------------------

\* the length limit of a company name
CompanyLimit == 50

clean_company_name(company_name) ==
    IF company_name = UNKNOWN_ATTRIBUTE_TEXT THEN company_name
    ELSE LET c1 == RemoveChars(company_name, IllegalChars)
             c2 == StripWww(c1)
             c3 == StripDotCom(c2)
             c4 == CollapseRuns(c3, SeparatorChars, <<"_">>)
             c5 == StripChars(c4, {"_"})
             c6 == IF Len(c5) > CompanyLimit
                   THEN SubSeq(c5, 1, CompanyLimit) ELSE c5
         IN  IF c6 # <<>> THEN c6 ELSE UNKNOWN_ATTRIBUTE_TEXT

clean_invoice_number(invoice_number) ==
    IF invoice_number = UNKNOWN_ATTRIBUTE_TEXT THEN invoice_number
    ELSE LET c1 == RemoveChars(invoice_number, IllegalChars \cup Whitespace)
             c2 == KeepChars(c1, NumberChars)
         IN  IF c2 # <<>> THEN c2 ELSE UNKNOWN_ATTRIBUTE_TEXT

clean_invoice_total(invoice_total) ==
    IF invoice_total = UNKNOWN_ATTRIBUTE_TEXT THEN invoice_total
    ELSE LET c1 == RemoveChars(invoice_total, IllegalChars)
             c2 == RemoveChars(c1, Whitespace)
             c3 == KeepChars(c2, TotalChars)
         IN  IF c3 # <<>> THEN c3 ELSE UNKNOWN_ATTRIBUTE_TEXT

\* ------------------------------------------------------------------------
\* clean_date
\* ------------------------------------------------------------------------

DateSeparator == {"/", "-"}

Max(S) == CHOOSE x \in S : \A y \in S : x >= y

Min(S) == CHOOSE x \in S : \A y \in S : x <= y

NoMatch == <<>>

\* how many digits s has from position i on, 5 standing for 5 or more (no
\* group takes more than 4)
DigitRun(s, i) ==
    LET stops == {k \in 0..4 : i + k > Len(s) \/ s[i + k] \notin Digit}
    IN  IF stops = {} THEN 5 ELSE Min(stops)

\* The groups of a match of (\d{L1})[/-](\d{L2})[/-](\d{L3}) that starts at
\* position i, or NoMatch. A group that a separator follows is the whole
\* run of digits there; the last group is greedy: as much of its run as L3
\* allows.
GroupsAt(s, i, L1, L2, L3) ==
    LET n1 == DigitRun(s, i)
        j  == i + n1 + 1
        n2 == DigitRun(s, j)
        k  == j + n2 + 1
        n3 == IF DigitRun(s, k) > Max(L3) THEN Max(L3) ELSE DigitRun(s, k)
    IN  IF /\ n1 \in L1
           /\ i + n1 <= Len(s) /\ s[i + n1] \in DateSeparator
           /\ n2 \in L2
           /\ j + n2 <= Len(s) /\ s[j + n2] \in DateSeparator
           /\ n3 \in L3
        THEN <<SubSeq(s, i, i + n1 - 1), SubSeq(s, j, j + n2 - 1), SubSeq(s, k, k + n3 - 1)>>
        ELSE NoMatch

\* re.search of a numeric date pattern: match.groups() of the leftmost
\* match, or NoMatch
SearchNumeric(s, L1, L2, L3) ==
    LET starts == {i \in 1..Len(s) : GroupsAt(s, i, L1, L2, L3) # NoMatch}
    IN  IF starts = {} THEN NoMatch ELSE GroupsAt(s, Min(starts), L1, L2, L3)

\* r'(\d{1,2})[/-](\d{1,2})[/-](\d{2,4})'
SearchPattern1(s) == SearchNumeric(s, 1..2, 1..2, 2..4)

\* r'(\d{2,4})[/-](\d{1,2})[/-](\d{1,2})'
SearchPattern2(s) == SearchNumeric(s, 2..4, 1..2, 1..2)

\* ExpandYear with the pivot year 50 counted as 20xx
ExpandYear_pivot_inclusive(g3) ==
    IF ParseInt(g3) <= 50 THEN ParseInt(g3) + 2000 ELSE ParseInt(g3) + 1900

\* the year of a final group that has not 4 digits
ExpandYear(g3) == IF ParseInt(g3) < 50 THEN ParseInt(g3) + 2000 ELSE ParseInt(g3) + 1900

\* the body of the match of a numeric pattern: all three groups are digits
ReformatNumeric(groups) ==
    IF Len(groups[3]) = 4
    THEN groups[1] \o <<"-">> \o zfill(groups[2], 2) \o <<"-">> \o zfill(groups[3], 2)
    ELSE IntToStr(ExpandYear(groups[3])) \o <<"-">> \o zfill(groups[1], 2)
         \o <<"-">> \o zfill(groups[2], 2)

\* DateFallback without the removal of the illegal characters
DateFallback_unfiltered(date) ==
    LET c2 == CollapseRuns(StripChars(date, Whitespace), Whitespace, <<"_">>)
    IN  IF c2 # <<>> THEN c2 ELSE UNKNOWN_ATTRIBUTE_TEXT

\* the code after the loop over the patterns
DateFallback(date) ==
    LET c1 == RemoveChars(date, IllegalChars)
        c2 == CollapseRuns(StripChars(c1, Whitespace), Whitespace, <<"_">>)
    IN  IF c2 # <<>> THEN c2 ELSE UNKNOWN_ATTRIBUTE_TEXT

\* The two month-name patterns capture a month name in a group, so the
\* isdigit test of the three groups fails for them and the loop goes on:
\* an input that only they match ends in the fallback.
clean_date(date) ==
    IF date = UNKNOWN_ATTRIBUTE_TEXT THEN date
    ELSE LET match1 == SearchPattern1(date)
             match2 == SearchPattern2(date)
         IN  IF match1 # NoMatch THEN ReformatNumeric(match1)
             ELSE IF match2 # NoMatch THEN ReformatNumeric(match2)
             ELSE DateFallback(date)

Fields == {"company_name", "invoice_number", "invoice_total", "date"}

\* clean_all with the invoice number cleaned from the company name's key
clean_all_wrong_key(invoice_data) ==
    [ company_name   |-> clean_company_name(invoice_data.company_name),
      invoice_number |-> clean_invoice_number(invoice_data.company_name),
      invoice_total  |-> clean_invoice_total(invoice_data.invoice_total),
      date           |-> clean_date(invoice_data.date) ]

clean_all(invoice_data) ==
    [ company_name   |-> clean_company_name(invoice_data.company_name),
      invoice_number |-> clean_invoice_number(invoice_data.invoice_number),
      invoice_total  |-> clean_invoice_total(invoice_data.invoice_total),
      date           |-> clean_date(invoice_data.date) ]

\* ------------------------------------------------------------------------
\* create_new_name
\* ------------------------------------------------------------------------

\* the length above which a file name is cut
NameLimit == 200

PdfExt == <<".", "p", "d", "f">>

\* NameComponents with the total appended before the date
NameComponents_total_first(invoice_data, today) ==
    << IF invoice_data.company_name # UNKNOWN_ATTRIBUTE_TEXT
       THEN invoice_data.company_name
       ELSE <<"U", "n", "k", "n", "o", "w", "n", "C", "o", "m", "p", "a", "n", "y">>,
       IF invoice_data.invoice_number # UNKNOWN_ATTRIBUTE_TEXT
       THEN invoice_data.invoice_number
       ELSE <<"N", "o", "N", "u", "m", "b", "e", "r">>,
       IF invoice_data.invoice_total # UNKNOWN_ATTRIBUTE_TEXT
       THEN invoice_data.invoice_total
       ELSE <<"N", "o", "A", "m", "o", "u", "n", "t">>,
       IF invoice_data.date # UNKNOWN_ATTRIBUTE_TEXT
       THEN invoice_data.date
       ELSE today >>

\* the four components, in the order they are appended; today is
\* datetime.now().strftime("%Y-%m-%d")
NameComponents(invoice_data, today) ==
    << IF invoice_data.company_name # UNKNOWN_ATTRIBUTE_TEXT
       THEN invoice_data.company_name
       ELSE <<"U", "n", "k", "n", "o", "w", "n", "C", "o", "m", "p", "a", "n", "y">>,
       IF invoice_data.invoice_number # UNKNOWN_ATTRIBUTE_TEXT
       THEN invoice_data.invoice_number
       ELSE <<"N", "o", "N", "u", "m", "b", "e", "r">>,
       IF invoice_data.date # UNKNOWN_ATTRIBUTE_TEXT
       THEN invoice_data.date
       ELSE today,
       IF invoice_data.invoice_total # UNKNOWN_ATTRIBUTE_TEXT
       THEN invoice_data.invoice_total
       ELSE <<"N", "o", "A", "m", "o", "u", "n", "t">> >>

\* create_new_name that cuts a long name and does not append the extension
create_new_name_cut_only(invoice_data, today) ==
    LET filename == Join(NameComponents(invoice_data, today), <<"_">>) \o PdfExt
    IN  IF Len(filename) > NameLimit
        THEN SubSeq(filename, 1, NameLimit)
        ELSE filename

create_new_name(invoice_data, today) ==
    LET filename == Join(NameComponents(invoice_data, today), <<"_">>) \o PdfExt
    IN  IF Len(filename) > NameLimit
        THEN SubSeq(filename, 1, NameLimit) \o PdfExt
        ELSE filename

\* ------------------------------------------------------------------------
\* Inputs of the cleaning pipeline
\* ------------------------------------------------------------------------

\* every string over alphabet A of at most n characters
Strings(A, n) == UNION {[1..k -> A] : k \in 0..n}

Pad(n) == [i \in 1..n |-> "a"]

CompanyAlphabet == {"a", " ", ".", "_", "-", "<"}

NumberAlphabet == {"A", "-", " ", "#", "/"}

TotalAlphabet == {"1", "€", " ", "x", "*"}

DateAlphabet == {"1", "/", " ", "J", ":"}

CompanyInputs ==
    LET tails == Strings(CompanyAlphabet, 2)
    IN  {UNKNOWN_ATTRIBUTE_TEXT} \cup Strings(CompanyAlphabet, MaxLen)
        \cup {<<"w", "w", "w", ".">> \o s : s \in tails}
        \cup {s \o <<".", "c", "o", "m">> : s \in tails}
        \cup {Pad(n) \o s : n \in (CompanyLimit - PadSpan)..CompanyLimit, s \in tails}

\* the long numbers bring the file name to either side of NameLimit
NumberInputs ==
    {UNKNOWN_ATTRIBUTE_TEXT} \cup Strings(NumberAlphabet, MaxLen)
    \cup {Pad(n) : n \in (NameLimit - 30 - PadSpan)..(NameLimit - 20)}

TotalInputs == {UNKNOWN_ATTRIBUTE_TEXT} \cup Strings(TotalAlphabet, MaxLen)

DateGroup1 == {<<"3">>, <<"0", "3">>, <<"2", "4">>, <<"1", "2", "3">>, <<"2", "0", "2", "4">>}

DateGroup2 == {<<"1">>, <<"1", "5">>, <<"0", "1", "5">>}

DateGroup3 ==
    {<<"5">>, <<"4", "9">>, <<"5", "0">>, <<"3", "4", "5">>,
     <<"2", "0", "2", "4">>, <<"2", "0", "2", "4", "5">>}

DateSeps == {"/", "-", " "}

DateInputs ==
    {UNKNOWN_ATTRIBUTE_TEXT} \cup Strings(DateAlphabet, MaxLen)
    \cup {pre \o g1 \o <<s1>> \o g2 \o <<s2>> \o g3 \o post :
            pre \in {<<>>, <<"1">>}, g1 \in DateGroup1, s1 \in DateSeps,
            g2 \in DateGroup2, s2 \in DateSeps, g3 \in DateGroup3,
            post \in {<<>>, <<" ">>}}
    \cup { <<"5", " ", "J", "a", "n", " ", "2", "0", "2", "4">>,
           <<"J", "a", "n", " ", "5", ",", " ", "2", "0", "2", "4">> }

AllUnknown ==
    [ company_name   |-> UNKNOWN_ATTRIBUTE_TEXT,
      invoice_number |-> UNKNOWN_ATTRIBUTE_TEXT,
      invoice_total  |-> UNKNOWN_ATTRIBUTE_TEXT,
      date           |-> UNKNOWN_ATTRIBUTE_TEXT ]

TypicalRecord ==
    [ company_name   |-> <<"A", "c", "m", "e">>,
      invoice_number |-> <<"I", "N", "V", "1", "2", "3">>,
      invoice_total  |-> <<"1", "0", "0", ".", "0", "0">>,
      date           |-> <<"1", "/", "5", "/", "2", "4">> ]

FieldInputs(f) ==
    CASE f = "company_name"   -> CompanyInputs
      [] f = "invoice_number" -> NumberInputs
      [] f = "invoice_total"  -> TotalInputs
      [] f = "date"           -> DateInputs

\* the records the pipeline is run on: one field drawn from its inputs, the
\* other three all unknown or all known
RawRecords ==
    {AllUnknown, TypicalRecord} \cup
    UNION { {[b EXCEPT ![f] = s] : b \in {AllUnknown, TypicalRecord},
                                   s \in FieldInputs(f)} : f \in Fields }

\* the dates the clock may show, as strftime("%Y-%m-%d") prints them
Todays ==
    { <<"2", "0", "2", "6", "-", "1", "1", "-", "0", "3">>,
      <<"1", "9", "9", "9", "-", "1", "2", "-", "3", "1">> }

\* ------------------------------------------------------------------------
\* The pipeline on one record: clean_all, then create_new_name
\* ------------------------------------------------------------------------

InitClean ==
    /\ raw \in RawRecords
    /\ cleaned_data = raw
    /\ recleaned = None
    /\ new_filename = None
    /\ clock = None
    /\ stage = "raw"
    /\ BatchIdle

\* cleaned_data = clean_all(cleaned_data)
CleanAll ==
    /\ stage = "raw"
    /\ cleaned_data' = clean_all(cleaned_data)
    /\ stage' = "cleaned"
    /\ UNCHANGED <<raw, recleaned, new_filename, clock>>
    /\ UNCHANGED batchVars

\* a cleaner applied to its own output
CleanAgain ==
    /\ stage = "cleaned"
    /\ recleaned' = clean_all(cleaned_data)
    /\ stage' = "recleaned"
    /\ UNCHANGED <<raw, cleaned_data, new_filename, clock>>
    /\ UNCHANGED batchVars

\* new_filename = create_new_name(cleaned_data)
CreateNewName ==
    /\ stage = "cleaned"
    /\ \E t \in Todays :
          /\ clock' = t
          /\ new_filename' = create_new_name(cleaned_data, t)
    /\ stage' = "named"
    /\ UNCHANGED <<raw, cleaned_data, recleaned>>
    /\ UNCHANGED batchVars

NextClean == CleanAll \/ CleanAgain \/ CreateNewName

SpecClean == InitClean /\ [][NextClean]_vars

\* ------------------------------------------------------------------------
\* The file system
\* ------------------------------------------------------------------------

\* os.path.join(directory, name)
PathJoin(directory, name) == [dir |-> directory, name |-> name]

\* os.path.dirname(path)
dirname(path) == path.dir

\* os.path.exists(path)
Exists(path) == path.name \in DOMAIN fs[path.dir]

\* os.path.splitext(name): the extension starts at the last dot, unless
\* only dots come before it
splitext(name) ==
    LET dots == {i \in 1..Len(name) : name[i] = "."}
    IN  IF dots = {} THEN <<name, <<>>>>
        ELSE LET d == Max(dots)
             IN  IF \E k \in 1..(d - 1) : name[k] # "."
                 THEN <<SubSeq(name, 1, d - 1), SubSeq(name, d, Len(name))>>
                 ELSE <<name, <<>>>>

\* the directory dir with the file name holding content
WithFile(dir, name, content) ==
    [n \in DOMAIN dir \cup {name} |-> IF n = name THEN content ELSE dir[n]]

\* the directory dir without the file name
WithoutFile(dir, name) == [n \in DOMAIN dir \ {name} |-> dir[n]]

\* f"{base_name}_{counter}{ext}" with the counter one too high
CounterName_skip_one(base_name, counter, ext) ==
    base_name \o <<"_">> \o IntToStr(counter + 1) \o ext

\* f"{base_name}_{counter}{ext}"
CounterName(base_name, counter, ext) ==
    base_name \o <<"_">> \o IntToStr(counter) \o ext

\* ------------------------------------------------------------------------
\* The documents and the files of the model
\* ------------------------------------------------------------------------

\* two scans of one invoice
RawA ==
    [ company_name   |-> <<"A", "c", ".">>,
      invoice_number |-> <<"7">>,
      invoice_total  |-> <<"$", "5">>,
      date           |-> <<"1", "/", "5", "/", "2", "4">> ]

RawB ==
    [ company_name   |-> <<"A", "<", "c">>,
      invoice_number |-> <<"#", "7">>,
      invoice_total  |-> <<"$", " ", "5">>,
      date           |-> <<"0", "1", "-", "0", "5", "-", "2", "4">> ]

\* a document for which the pipeline answers with something that is no string
RawC == [AllUnknown EXCEPT !.company_name = None]

\* what the question-answering pipeline extracts from a document
Answers(content) ==
    CASE content = "docA" -> RawA
      [] content = "docB" -> RawB
      [] content = "docC" -> RawC
      [] OTHER -> RawA

\* the canonical name of the invoice of RawA and RawB, and the names the
\* collision resolver derives from it
NameX ==
    <<"A", "c", "_", "7", "_", "2", "0", "2", "4", "-", "0", "1", "-", "0", "5",
      "_", "$", "5", ".", "p", "d", "f">>

NameXn(n) ==
    <<"A", "c", "_", "7", "_", "2", "0", "2", "4", "-", "0", "1", "-", "0", "5",
      "_", "$", "5", "_">> \o IntToStr(n) \o <<".", "p", "d", "f">>

NameA == <<"a", ".", "p", "d", "f">>

NameB == <<"b", ".", "p", "d", "f">>

NameC == <<"c", ".", "p", "d", "f">>

NameMissing == <<"m", ".", "p", "d", "f">>

\* the invoices to rename
SourceFiles == WithFile(WithFile(WithFile(EmptyDir, NameA, "docA"), NameB, "docB"), NameC, "docC")

\* the files that may be in the input directory from an earlier run
EarlierRuns == {{}, {NameX}, {NameX, NameXn(2)}}

RECURSIVE WithEarlier(_, _)
WithEarlier(dir, names) ==
    IF names = {} THEN dir
    ELSE LET n == CHOOSE x \in names : TRUE
         IN  WithEarlier(WithFile(dir, n, "old"), names \ {n})

\* the paths a batch may be given
Paths == {PathJoin(InDir, n) : n \in {NameA, NameB, NameC, NameMissing, NameX}}

\* ------------------------------------------------------------------------
\* process_multiple_invoices, process_single_invoice and rename_file
\* ------------------------------------------------------------------------

\* the result records
SuccessRecord(file_path, new_path, filename, data) ==
    [ success |-> TRUE, original_path |-> file_path, new_path |-> new_path,
      new_filename |-> filename, invoice_data |-> data ]

FailureRecord(file_path, error) ==
    [ success |-> FALSE, original_path |-> file_path, error |-> error,
      invoice_data |-> None ]

\* the path the loop of the batch is at
CurrentPath(w) == file_paths[w][idx[w] + 1]

\* results.append(result), and the loop goes to the next path
AppendResult(w, result) ==
    /\ results' = [results EXCEPT ![w] = Append(@, result)]
    /\ idx' = [idx EXCEPT ![w] = @ + 1]
    /\ pc' = [pc EXCEPT ![w] = "loop"]
    /\ local' = [local EXCEPT ![w] = NoLocals]

\* answer_invoice_questions: a document that cannot be loaded gives the
\* record of unknowns
answer_invoice_questions(file_path) ==
    IF Exists(file_path) THEN Answers(fs[file_path.dir][file_path.name]) ELSE AllUnknown

\* re.sub raises TypeError on a value that is no string
CleanAllRaises(invoice_data) == \E f \in Fields : invoice_data[f] = None

\* where the callers serialize the batches, a batch writes to a directory
\* only while no other batch is writing
MayWrite(w) ==
    locked => \A v \in Workers \ {w} : pc[v] \notin {"check", "rename", "copy"}

\* the loop is over: return results
ReturnResults(w) ==
    /\ pc[w] = "loop"
    /\ idx[w] = Len(file_paths[w])
    /\ pc' = [pc EXCEPT ![w] = "done"]
    /\ UNCHANGED <<fs, output_directory, locked, file_paths, idx, results, local, lost>>
    /\ UNCHANGED cleanVars

\* MissingFile that goes to the next path without a result
MissingFile_no_record(w) ==
    /\ pc[w] = "loop"
    /\ idx[w] < Len(file_paths[w])
    /\ ~Exists(CurrentPath(w))
    /\ idx' = [idx EXCEPT ![w] = @ + 1]
    /\ UNCHANGED <<fs, output_directory, locked, file_paths, results, pc, local, lost>>
    /\ UNCHANGED cleanVars

\* the path does not exist: the "File not found" record
MissingFile(w) ==
    /\ pc[w] = "loop"
    /\ idx[w] < Len(file_paths[w])
    /\ ~Exists(CurrentPath(w))
    /\ AppendResult(w, FailureRecord(CurrentPath(w), "File not found"))
    /\ UNCHANGED <<fs, output_directory, locked, file_paths, lost>>
    /\ UNCHANGED cleanVars

\* the path exists: process_single_invoice(file_path, output_directory)
EnterSingle(w) ==
    /\ pc[w] = "loop"
    /\ idx[w] < Len(file_paths[w])
    /\ Exists(CurrentPath(w))
    /\ pc' = [pc EXCEPT ![w] = "single"]
    /\ local' = [local EXCEPT ![w].file_path = CurrentPath(w)]
    /\ UNCHANGED <<fs, output_directory, locked, file_paths, idx, results, lost>>
    /\ UNCHANGED cleanVars

\* clean_all raises: the except clause builds the failure record
CleanRaises(w) ==
    /\ pc[w] = "single"
    /\ CleanAllRaises(answer_invoice_questions(local[w].file_path))
    /\ AppendResult(w, FailureRecord(local[w].file_path, "TypeError"))
    /\ UNCHANGED <<fs, output_directory, locked, file_paths, lost>>
    /\ UNCHANGED cleanVars

\* extraction, cleaning and naming, up to the copy into the output directory
PrepareCopy(w) ==
    /\ pc[w] = "single"
    /\ ~CleanAllRaises(answer_invoice_questions(local[w].file_path))
    /\ output_directory # None
    /\ MayWrite(w)
    /\ \E t \in Todays :
          LET data     == clean_all(answer_invoice_questions(local[w].file_path))
              filename == create_new_name(data, t)
          IN  local' = [local EXCEPT ![w].cleaned = data,
                                     ![w].new_filename = filename,
                                     ![w].new_path = PathJoin(output_directory, filename)]
    /\ pc' = [pc EXCEPT ![w] = "copy"]
    /\ UNCHANGED <<fs, output_directory, locked, file_paths, idx, results, lost>>
    /\ UNCHANGED cleanVars

\* extraction, cleaning and naming, up to the loop of rename_file
EnterRename(w) ==
    /\ pc[w] = "single"
    /\ ~CleanAllRaises(answer_invoice_questions(local[w].file_path))
    /\ output_directory = None
    /\ MayWrite(w)
    /\ \E t \in Todays :
          LET data     == clean_all(answer_invoice_questions(local[w].file_path))
              filename == create_new_name(data, t)
          IN  local' = [local EXCEPT ![w].cleaned = data,
                                     ![w].new_filename = filename,
                                     ![w].new_path =
                                         PathJoin(dirname(local[w].file_path), filename),
                                     ![w].counter = 1,
                                     ![w].base_name = splitext(filename)[1],
                                     ![w].ext = splitext(filename)[2]]
    /\ pc' = [pc EXCEPT ![w] = "check"]
    /\ UNCHANGED <<fs, output_directory, locked, file_paths, idx, results, lost>>
    /\ UNCHANGED cleanVars

\* the condition of the while loop of rename_file, never true
CandidateTaken_never(w) == FALSE

\* the condition of the while loop of rename_file
CandidateTaken(w) == Exists(local[w].new_path)

\* the body of the while loop: the candidate exists, try the next one
NextCandidate(w) ==
    /\ pc[w] = "check"
    /\ CandidateTaken(w)
    /\ local' = [local EXCEPT
                    ![w].new_path =
                        PathJoin(dirname(local[w].file_path),
                                 CounterName(local[w].base_name, local[w].counter, local[w].ext)),
                    ![w].counter = @ + 1]
    /\ UNCHANGED <<fs, output_directory, locked, file_paths, idx, results, pc, lost>>
    /\ UNCHANGED cleanVars

\* the candidate does not exist: the loop ends
LoopExit(w) ==
    /\ pc[w] = "check"
    /\ ~CandidateTaken(w)
    /\ pc' = [pc EXCEPT ![w] = "rename"]
    /\ UNCHANGED <<fs, output_directory, locked, file_paths, idx, results, local, lost>>
    /\ UNCHANGED cleanVars

\* what a write to new_path destroys: the file that is there, if it is
\* another file than the one written
Overwritten(old_path, new_path) ==
    IF Exists(new_path) /\ new_path # old_path
    THEN {[path |-> new_path, content |-> fs[new_path.dir][new_path.name]]}
    ELSE {}

\* os.rename(old_path, new_path) succeeds; a file at new_path is replaced
RenameOk(w) ==
    /\ pc[w] = "rename"
    /\ Exists(local[w].file_path)
    /\ LET old_path == local[w].file_path
           new_path == local[w].new_path
           content  == fs[old_path.dir][old_path.name]
       IN  /\ fs' = [fs EXCEPT ![new_path.dir] =
                        WithFile(WithoutFile(@, old_path.name), new_path.name, content)]
           /\ lost' = lost \cup Overwritten(old_path, new_path)
           /\ AppendResult(w, SuccessRecord(old_path, new_path,
                                            local[w].new_filename, local[w].cleaned))
    /\ UNCHANGED <<output_directory, locked, file_paths>>
    /\ UNCHANGED cleanVars

\* os.rename raises (the source is gone, the target is in use, ...): the
\* except clause of process_single_invoice builds the failure record
RenameRaises(w) ==
    /\ pc[w] = "rename"
    /\ AppendResult(w, FailureRecord(local[w].file_path, "OSError"))
    /\ UNCHANGED <<fs, output_directory, locked, file_paths, lost>>
    /\ UNCHANGED cleanVars

\* shutil.copy2(file_path, new_path) succeeds; a file at new_path is replaced
CopyOk(w) ==
    /\ pc[w] = "copy"
    /\ Exists(local[w].file_path)
    /\ LET old_path == local[w].file_path
           new_path == local[w].new_path
           content  == fs[old_path.dir][old_path.name]
       IN  /\ fs' = [fs EXCEPT ![new_path.dir] = WithFile(@, new_path.name, content)]
           /\ lost' = lost \cup Overwritten(old_path, new_path)
           /\ AppendResult(w, SuccessRecord(old_path, new_path,
                                            local[w].new_filename, local[w].cleaned))
    /\ UNCHANGED <<output_directory, locked, file_paths>>
    /\ UNCHANGED cleanVars

\* shutil.copy2 raises
CopyRaises(w) ==
    /\ pc[w] = "copy"
    /\ AppendResult(w, FailureRecord(local[w].file_path, "OSError"))
    /\ UNCHANGED <<fs, output_directory, locked, file_paths, lost>>
    /\ UNCHANGED cleanVars

WorkerNext(w) ==
    \/ ReturnResults(w)
    \/ MissingFile(w)
    \/ EnterSingle(w)
    \/ CleanRaises(w)
    \/ PrepareCopy(w)
    \/ EnterRename(w)
    \/ NextCandidate(w)
    \/ LoopExit(w)
    \/ RenameOk(w)
    \/ RenameRaises(w)
    \/ CopyOk(w)
    \/ CopyRaises(w)

BatchNext == \E w \in Workers : WorkerNext(w)

\* a batch without an output directory
InPlaceNext(w) ==
    \/ ReturnResults(w)
    \/ MissingFile(w)
    \/ EnterSingle(w)
    \/ CleanRaises(w)
    \/ EnterRename(w)
    \/ NextCandidate(w)
    \/ LoopExit(w)
    \/ RenameOk(w)
    \/ RenameRaises(w)

\* every list of at most n paths
PathLists(n) == UNION {[1..k -> Paths] : k \in 0..n}

\* one batch: process_multiple_invoices(file_paths, output_directory)
Init ==
    /\ PipelineIdle
    /\ \E earlier \in EarlierRuns :
          fs = [d \in {InDir, OutDir} |->
                   IF d = InDir THEN WithEarlier(SourceFiles, earlier) ELSE EmptyDir]
    /\ output_directory \in {None, OutDir}
    /\ locked = TRUE
    /\ \E paths \in PathLists(MaxBatch) :
          file_paths = [w \in Workers |-> IF w = "w1" THEN paths ELSE <<>>]
    /\ idx = [w \in Workers |-> 0]
    /\ results = [w \in Workers |-> <<>>]
    /\ pc = [w \in Workers |-> IF w = "w1" THEN "loop" ELSE "done"]
    /\ local = [w \in Workers |-> NoLocals]
    /\ lost = {}

Next == BatchNext

Spec == Init /\ [][Next]_vars

\* a call of rename_file that is in its while loop keeps running
FairSpec ==
    Spec /\ \A w \in Workers : WF_vars(NextCandidate(w)) /\ WF_vars(LoopExit(w))

\* two batches at the same time on one input directory, renaming in place,
\* with or without the callers serializing them
InitConcurrent ==
    /\ PipelineIdle
    /\ \E earlier \in EarlierRuns :
          fs = [d \in {InDir, OutDir} |->
                   IF d = InDir THEN WithEarlier(SourceFiles, earlier) ELSE EmptyDir]
    /\ output_directory = None
    /\ locked \in BOOLEAN
    /\ file_paths \in [Workers -> PathLists(1)]
    /\ idx = [w \in Workers |-> 0]
    /\ results = [w \in Workers |-> <<>>]
    /\ pc = [w \in Workers |-> "loop"]
    /\ local = [w \in Workers |-> NoLocals]
    /\ lost = {}

NextConcurrent == \E w \in Workers : InPlaceNext(w)

SpecConcurrent == InitConcurrent /\ [][NextConcurrent]_vars

\* ------------------------------------------------------------------------
\* Properties of the cleaners and of the file name
\* ------------------------------------------------------------------------

HasIllegalChar(s) == \E i \in 1..Len(s) : s[i] \in IllegalChars

\* C4: a field that holds the sentinel "UNKNOWN" still holds it after
\* clean_all, whatever the other three fields hold, and every cleaner maps
\* the sentinel to itself.
C4_SentinelPreserved ==
    /\ stage # "raw" =>
          \A f \in Fields :
             raw[f] = UNKNOWN_ATTRIBUTE_TEXT => cleaned_data[f] = UNKNOWN_ATTRIBUTE_TEXT
    /\ stage = "recleaned" =>
          \A f \in Fields :
             cleaned_data[f] = UNKNOWN_ATTRIBUTE_TEXT => recleaned[f] = UNKNOWN_ATTRIBUTE_TEXT

\* a cleaned record with an unknown date and three known fields
C4_Witness ==
    /\ stage = "cleaned"
    /\ raw.date = UNKNOWN_ATTRIBUTE_TEXT
    /\ cleaned_data.date = UNKNOWN_ATTRIBUTE_TEXT
    /\ \A f \in Fields \ {"date"} :
          raw[f] # UNKNOWN_ATTRIBUTE_TEXT /\ cleaned_data[f] # UNKNOWN_ATTRIBUTE_TEXT

\* C5: no cleaned field contains one of the characters < > : " / \ | ? *,
\* whichever branch of its cleaner produced it.
C5_FilenameSafe ==
    stage # "raw" => \A f \in Fields : ~HasIllegalChar(cleaned_data[f])

\* a date with an illegal character that no numeric pattern matches, cleaned
\* by the fallback branch to something else than the sentinel
C5_Witness ==
    /\ stage = "cleaned"
    /\ HasIllegalChar(raw.date)
    /\ SearchPattern1(raw.date) = NoMatch
    /\ SearchPattern2(raw.date) = NoMatch
    /\ cleaned_data.date # UNKNOWN_ATTRIBUTE_TEXT

\* C6: cleaning a cleaned company name again changes nothing, for every
\* input other than the sentinel.
C6_Idempotent ==
    (stage = "recleaned" /\ raw.company_name # UNKNOWN_ATTRIBUTE_TEXT)
        => recleaned.company_name = cleaned_data.company_name

\* the file name the claims C7 and C8 describe, before any cut: the four
\* components in the order company, number, date, total, each replaced by
\* its fallback exactly when it is the sentinel
Candidate ==
    LET c1 == IF cleaned_data.company_name = UNKNOWN_ATTRIBUTE_TEXT
              THEN <<"U", "n", "k", "n", "o", "w", "n", "C", "o", "m", "p", "a", "n", "y">>
              ELSE cleaned_data.company_name
        c2 == IF cleaned_data.invoice_number = UNKNOWN_ATTRIBUTE_TEXT
              THEN <<"N", "o", "N", "u", "m", "b", "e", "r">>
              ELSE cleaned_data.invoice_number
        c3 == IF cleaned_data.date = UNKNOWN_ATTRIBUTE_TEXT
              THEN clock ELSE cleaned_data.date
        c4 == IF cleaned_data.invoice_total = UNKNOWN_ATTRIBUTE_TEXT
              THEN <<"N", "o", "A", "m", "o", "u", "n", "t">>
              ELSE cleaned_data.invoice_total
    IN  c1 \o <<"_">> \o c2 \o <<"_">> \o c3 \o <<"_">> \o c4 \o <<".", "p", "d", "f">>

\* C7: when the joined name, extension included, has at most 200
\* characters, create_new_name returns company_number_date_total.pdf with
\* the fallbacks UnknownCompany, NoNumber, today's date and NoAmount.
C7_NameConstruction ==
    (stage = "named" /\ Len(Candidate) <= 200) => new_filename = Candidate

\* the record Acme, INV123, 2024-01-05, 100.00 named
\* Acme_INV123_2024-01-05_100.00.pdf
C7_Witness ==
    /\ stage = "named"
    /\ cleaned_data.date = <<"2", "0", "2", "4", "-", "0", "1", "-", "0", "5">>
    /\ new_filename =
          <<"A", "c", "m", "e", "_", "I", "N", "V", "1", "2", "3", "_",
            "2", "0", "2", "4", "-", "0", "1", "-", "0", "5", "_",
            "1", "0", "0", ".", "0", "0", ".", "p", "d", "f">>

\* C8: the file name is not empty, ends with .pdf and has at most 204
\* characters; a candidate longer than 200 characters is cut to its first
\* 200 characters, followed by .pdf.
C8_NameBounded ==
    stage = "named" =>
        /\ new_filename # <<>>
        /\ Len(new_filename) <= 204
        /\ Len(new_filename) >= 4
        /\ SubSeq(new_filename, Len(new_filename) - 3, Len(new_filename))
              = <<".", "p", "d", "f">>
        /\ Len(Candidate) > 200 =>
              new_filename = SubSeq(Candidate, 1, 200) \o <<".", "p", "d", "f">>

\* a candidate of 202 characters, cut in the middle of its extension
C8_Witness ==
    /\ stage = "named"
    /\ Len(Candidate) = 202
    /\ Len(new_filename) = 204

\* the groups of the numeric pattern that decides a date, or NoMatch
WinningGroups(date) ==
    IF SearchPattern1(date) # NoMatch THEN SearchPattern1(date) ELSE SearchPattern2(date)

ZeroPad2(g) == IF Len(g) = 1 THEN <<"0">> \o g ELSE g

IsCanonicalDate(s) ==
    /\ Len(s) = 10
    /\ s[5] = "-" /\ s[8] = "-"
    /\ \A i \in {1, 2, 3, 4, 6, 7, 9, 10} : s[i] \in Digit

\* C11: clean_date leaves a date of the form YYYY-MM-DD unchanged, so that
\* cleaning again the output of the numeric branch of clean_date changes
\* nothing.
C11_DateIdempotent ==
    (stage = "recleaned" /\ raw.date # UNKNOWN_ATTRIBUTE_TEXT) =>
        /\ IsCanonicalDate(cleaned_data.date) => recleaned.date = cleaned_data.date
        /\ WinningGroups(raw.date) # NoMatch => recleaned.date = cleaned_data.date

\* ------------------------------------------------------------------------
\* Properties of the collision resolver and of the batch
\* ------------------------------------------------------------------------

\* name with _n before its extension .pdf
Suffixed(name, n) ==
    SubSeq(name, 1, Len(name) - 4) \o <<"_">> \o IntToStr(n)
        \o SubSeq(name, Len(name) - 3, Len(name))

\* the name the claim C1 describes: name itself if the input directory has
\* no such file, and else name with the least suffix _N, N >= 1, that the
\* directory does not have
LeastFreeName(name) ==
    LET taken == DOMAIN fs[InDir]
    IN  IF name \notin taken THEN name
        ELSE Suffixed(name, Min({n \in 1..(Cardinality(taken) + 1) :
                                    Suffixed(name, n) \notin taken}))

SuccessesOf(w) == {i \in 1..Len(results[w]) : results[w][i].success}

\* a step of batch w that renames a file
RenameStepOf(w) ==
    /\ pc[w] = "rename"
    /\ Len(results'[w]) = Len(results[w]) + 1
    /\ results'[w][Len(results'[w])].success

\* C1: with one writer, rename_file moves the file to new_name if the
\* directory has no such file and else to base_N.ext for the least N >= 1
\* that is free, and its loop ends.
C1_Resolution ==
    /\ [](\A w \in Workers :
             pc[w] = "rename" =>
                local[w].new_path = PathJoin(InDir, LeastFreeName(local[w].new_filename)))
    /\ [][\A w \in Workers :
             RenameStepOf(w) =>
                LET r == results'[w][Len(results'[w])]
                IN  /\ r.new_path = PathJoin(InDir, LeastFreeName(r.new_filename))
                    /\ r.new_path.name \in DOMAIN fs'[InDir]
                    /\ fs'[InDir][r.new_path.name] = fs[InDir][r.original_path.name]
                    /\ r.original_path.name \notin DOMAIN fs'[InDir]
                    /\ lost' = lost]_vars
    /\ \A w \in Workers : (pc[w] = "check") ~> (pc[w] # "check")

\* X.pdf is there from an earlier run; a.pdf went to X_1.pdf and then b.pdf
\* to X_2.pdf
C1_Witness ==
    /\ pc["w1"] = "done"
    /\ output_directory = None
    /\ file_paths["w1"] = <<PathJoin(InDir, NameA), PathJoin(InDir, NameB)>>
    /\ Len(results["w1"]) = 2
    /\ results["w1"][1].success /\ results["w1"][2].success
    /\ results["w1"][1].new_path = PathJoin(InDir, NameXn(1))
    /\ results["w1"][2].new_path = PathJoin(InDir, NameXn(2))
    /\ DOMAIN fs[InDir] = {NameX, NameXn(1), NameXn(2), NameC}
    /\ fs[InDir][NameX] = "old"
    /\ fs[InDir][NameXn(1)] = "docA"
    /\ fs[InDir][NameXn(2)] = "docB"

\* C2: the batch returns one record per input path, in the order of the
\* input; a missing path and a step that raises give a failure record with
\* an error text and no invoice data, and the batch goes on.
C2_OnePerInput ==
    /\ [](\A w \in Workers :
             /\ Len(results[w]) = idx[w]
             /\ idx[w] <= Len(file_paths[w])
             /\ pc[w] = "done" => idx[w] = Len(file_paths[w])
             /\ \A i \in 1..Len(results[w]) :
                   LET r == results[w][i]
                   IN  /\ r.original_path = file_paths[w][i]
                       /\ ~r.success =>
                             /\ DOMAIN r = {"success", "original_path", "error", "invoice_data"}
                             /\ r.error \in {"File not found", "TypeError", "OSError"}
                             /\ r.invoice_data = None
                       /\ r.success =>
                             /\ "error" \notin DOMAIN r
                             /\ DOMAIN r.invoice_data = Fields)
    /\ [][\A w \in Workers :
             /\ SubSeq(results'[w], 1, Len(results[w])) = results[w]
             /\ (/\ pc[w] = "loop"
                 /\ idx[w] < Len(file_paths[w])
                 /\ ~Exists(CurrentPath(w))
                 /\ <<pc[w], idx[w]>> # <<pc'[w], idx'[w]>>) =>
                   results'[w] = Append(results[w],
                                        [ success |-> FALSE, original_path |-> CurrentPath(w),
                                          error |-> "File not found", invoice_data |-> None ])
             /\ (pc[w] \in {"single", "check", "rename", "copy"} /\ pc'[w] = "loop") =>
                   /\ Len(results'[w]) = Len(results[w]) + 1
                   /\ idx'[w] = idx[w] + 1]_vars

\* three inputs, the second one missing: two successes and one failure
C2_Witness ==
    /\ pc["w1"] = "done"
    /\ Len(file_paths["w1"]) = 3
    /\ file_paths["w1"][2] = PathJoin(InDir, NameMissing)
    /\ Cardinality(SuccessesOf("w1")) = 2
    /\ ~results["w1"][2].success
    /\ results["w1"][2].error = "File not found"
    /\ results["w1"][2].invoice_data = None

\* C3: no successful copy or rename writes to a path that exists, so no file
\* is overwritten and no two successful results of a batch have the same
\* new_path, with or without an output directory.
C3_NoOverwrite ==
    /\ lost = {}
    /\ \A w \in Workers :
          \A i, j \in SuccessesOf(w) :
             i # j => results[w][i].new_path # results[w][j].new_path

\* C10, one writer at a time: no rename_file call replaces a file.
C10_SingleWriterSafe == locked => lost = {}

\* C10, two writers: both calls found the same candidate free and both
\* renamed onto it, and the first file is gone
C10_Race ==
    /\ ~locked
    /\ Len(results["w1"]) = 1 /\ results["w1"][1].success
    /\ Len(results["w2"]) = 1 /\ results["w2"][1].success
    /\ results["w1"][1].original_path # results["w2"][1].original_path
    /\ results["w1"][1].new_path = results["w2"][1].new_path
    /\ lost # {}

\* C12: a call of rename_file whose file already has the name new_name
\* returns old_path and leaves the names of the directory as they are, so
\* that an in-place batch on its own output renames no file.
C12_InPlaceStable ==
    [][\A w \in Workers :
          (RenameStepOf(w) /\ local[w].file_path.name = local[w].new_filename) =>
              LET r == results'[w][Len(results'[w])]
              IN  /\ r.new_path = r.original_path
                  /\ DOMAIN fs'[InDir] = DOMAIN fs[InDir]]_vars

====
